---- MODULE Spec2Model ----
(***************************************************************************)
(* BrandForge: the generation orchestration pipeline of the newer App      *)
(* (handleAnalyze / handleDemoMode / startGeneration) together with the    *)
(* style extraction service (fetchScreenshotBase64 / analyzeBrandFromUrl). *)
(*                                                                         *)
(* One action is one macrotask of the browser's event loop (a user event,  *)
(* a timer callback, a network completion) together with every microtask   *)
(* (promise continuation) it triggers: no other macrotask can run between  *)
(* them.  Log entries omit the "[hh:mm:ss] " prefix that addLog puts in    *)
(* front of every message.                                                 *)
(***************************************************************************)
EXTENDS Integers, Sequences, FiniteSets, TLC

\* ------------------------------------------------------------------ bounds
\* number of times the user presses one of the two demo buttons
MaxDemo == 1
\* number of generation requests the generation collaborator answers in a
\* session (the others stay in flight for ever)
MaxSettled == 1
\* number of milliseconds the clock advances in a session
MaxNow == 1
\* length of the longest string analyzeColor is called with
MaxHexLen == 7
\* number of URLs the user submits to the earlier App in a session
MaxRuns == 2

\* --------------------------------------------------------------- constants
LOGO_VARIANTS == <<"Minimalist Wordmark", "Abstract Icon", "App Icon">>
BRAND_ASSETS == <<"Billboard", "Merch", "Poster">>

KeyMsg == "API Key not found"
TimeoutMsg == "Gemini API timed out after 40s"
ParseMsg == "Failed to parse brand analysis results."
EmptyMsg == "Failed to analyze brand."
LogoMsg == "Failed to generate logo image"
\* the messages of the errors the collaborators raise themselves (network,
\* quota): capture service, analysis model, image model
CaptureErrMsg == "Failed to fetch"
AnalysisErrMsg == "Analysis request failed"
GenerationErrMsg == "Image request failed"
AbortMsg == "The user aborted a request."
NullStyleMsg == "Cannot read properties of null (reading 'brandName')"
NoColorsMsg == "Cannot read properties of undefined (reading 'join')"

VARIABLES
    apiKey,            \* process.env.API_KEY is set
    state,             \* React state: AnalysisState {status, message}
    brandStyle,        \* React state: BrandStyle | null
    assets,            \* React state: GeneratedAsset[]
    logs,              \* React state: string[]
    apc,               \* position of the one analyzeBrandFromUrl execution
    timeoutId,         \* the 8 s capture timer
    screenshotBase64,  \* what fetchScreenshotBase64 resolved to
    inputParts,        \* the parts of the analysis request that was sent
    geminiPromise,     \* the analysis collaborator call
    geminiValue,       \* the text of the response it resolved with
    timeoutPromise,    \* the 40 s analysis timer
    demoTimers,        \* pending 1 s timers of handleDemoMode
    demoClicks,        \* how often handleDemoMode was invoked
    gens,              \* the executions of startGeneration, oldest first
    now,               \* Date.now(), in ms since the page was loaded
    onLog,             \* the log sink of a call of analyzeBrandFromUrl made
                       \* outside App
    collaborators,     \* how capture and analysis behave during that call
    callResult,        \* the request that call sent and how it ended
    hex,               \* the argument of a call of analyzeColor
    metrics,           \* the ColorMetrics it returned
    saved,             \* the archive handleDownloadZip passed to saveAs last
    runs               \* the executions of handleAnalyze of the earlier App
                       \* (src/App.tsx), oldest first

vars == <<apiKey, state, brandStyle, assets, logs, apc, timeoutId,
          screenshotBase64, inputParts, geminiPromise, geminiValue,
          timeoutPromise, demoTimers, demoClicks, gens, now,
          onLog, collaborators, callResult, hex, metrics, saved, runs>>

app == <<state, brandStyle, assets, logs>>
capture == <<timeoutId, screenshotBase64>>
analysis == <<apc, inputParts, geminiPromise, geminiValue, timeoutPromise>>
demo == <<demoTimers, demoClicks>>
calls == <<onLog, collaborators, callResult, hex, metrics>>

\* ----------------------------------------------------------------- helpers
Status(s) == [status |-> s, message |-> ""]
Error(m) == [status |-> "error", message |-> m]

Range(s) == {s[i] : i \in 1..Len(s)}

PrimaryLogo == LOGO_VARIANTS[1]
ExtraLogos == SubSeq(LOGO_VARIANTS, 2, Len(LOGO_VARIANTS))
SecondWave == BRAND_ASSETS \o ExtraLogos
Subtypes == Range(LOGO_VARIANTS) \cup Range(BRAND_ASSETS)
IsLogo(t) == t \in Range(LOGO_VARIANTS)

\* the eight tasks of the earlier App (src/App.tsx)
App1_LOGO_VARIANTS ==
    <<"Minimalist Wordmark", "Abstract Icon", "Geometric Monogram", "App Icon",
      "Emblem">>
SOCIAL_PLATFORMS == <<"Instagram", "Twitter", "LinkedIn">>
App1_Tasks == Range(App1_LOGO_VARIANTS) \cup Range(SOCIAL_PLATFORMS)
App1_IsLogo(t) == t \in Range(App1_LOGO_VARIANTS)

\* the asset a generation task resolves to; gen is the execution of
\* startGeneration that issued the task.
\*   id: `logo-${Date.now()}-${Math.random()}` for a logo, where the random
\*       number is taken never to repeat and is named by the call that drew it;
\*       `asset-${type}-${Date.now()}` for a brand asset
GeneratedAsset(g, t) ==
    [gen |-> g,
     id |-> IF IsLogo(t)
            THEN [prefix |-> "logo", type |-> "", ms |-> now, random |-> <<g, t>>]
            ELSE [prefix |-> "asset", type |-> t, ms |-> now, random |-> <<>>],
     type |-> IF IsLogo(t) THEN "logo" ELSE "social", subtype |-> t]

\* the error a generation task rejects with
\*   "noimage": the response carries no inline image data
\*   "error":   the collaborator call itself rejects
TaskError(t, outcome) ==
    IF outcome = "error" THEN GenerationErrMsg
    ELSE IF IsLogo(t) THEN LogoMsg
    ELSE "Failed to generate " \o t

\* a faulty variant of AppendAsset: setAssets(prev => [asset, ...prev])
PrependAsset(prev, asset) == <<asset>> \o prev

\* setAssets(prev => [...prev, asset])
AppendAsset(prev, asset) == Append(prev, asset)

\* a faulty variant of addLog: setLogs(prev => [msg, ...prev])
PrependLog(prev, msg) == <<msg>> \o prev

\* addLog(msg)
addLog(prev, msg) == Append(prev, msg)

RECURSIVE addLogs(_, _)
addLogs(prev, msgs) ==
    IF msgs = <<>> THEN prev
    ELSE addLogs(addLog(prev, Head(msgs)), Tail(msgs))

\* --------------------------------------------------- analysis response text
\* A response text is a sequence of lexical pieces:
\*   "FENCE_JSON" = "```json\n", "FENCE" = "```", "WS" = white space,
\*   "OBJ" = a JSON object with the five descriptor fields,
\*   "EMPTYOBJ" = "{}", "NULL" = "null", "JUNK" = text that is not JSON.
Texts == { <<>>, <<"WS">>, <<"JUNK">>, <<"OBJ">>,
           <<"FENCE_JSON", "OBJ", "WS", "FENCE">>,
           <<"FENCE_JSON", "JUNK", "FENCE">>,
           <<"NULL">>, <<"EMPTYOBJ">> }

RECURSIVE Remove(_, _)
Remove(text, piece) ==
    IF text = <<>> THEN <<>>
    ELSE IF Head(text) = piece THEN Remove(Tail(text), piece)
    ELSE <<Head(text)>> \o Remove(Tail(text), piece)

RECURSIVE TrimLeft(_)
TrimLeft(text) ==
    IF text # <<>> /\ Head(text) = "WS" THEN TrimLeft(Tail(text)) ELSE text

RECURSIVE TrimRight(_)
TrimRight(text) ==
    IF text # <<>> /\ text[Len(text)] = "WS"
    THEN TrimRight(SubSeq(text, 1, Len(text) - 1)) ELSE text

\* text.replace(/```json\n?/g, '').replace(/```/g, '').trim()
StripFences(text) == TrimLeft(TrimRight(Remove(Remove(text, "FENCE_JSON"), "FENCE")))

\* JSON.parse(text): the value, or "SyntaxError"
JsonParse(text) ==
    IF Len(text) = 1 /\ text[1] \in {"OBJ", "EMPTYOBJ", "NULL"}
    THEN (CASE text[1] = "OBJ" -> "live"
            [] text[1] = "EMPTYOBJ" -> "empty"
            [] text[1] = "NULL" -> "null")
    ELSE "SyntaxError"

\* getDemoBrandStyle()
getDemoBrandStyle == "demo"

\* the values brandStyle can take: null, the demo descriptor, and the three
\* JSON values the analysis can return
Styles == {"null", "demo", "live", "empty"}

\* ------------------------------------------------------------------- state
TypeOK ==
    /\ apiKey \in BOOLEAN
    /\ state.status \in {"idle", "analyzing", "generating", "complete", "error"}
    /\ brandStyle \in Styles
    /\ \A i \in 1..Len(assets) : assets[i].subtype \in Subtypes \cup App1_Tasks
    /\ \A r \in 1..Len(runs) :
          /\ runs[r].pc \in {"analysis", "tasks", "done", "failed"}
          /\ \A t \in App1_Tasks :
                runs[r].task[t] \in {"idle", "pending", "ok", "fail", "thrown"}
    /\ apc \in {"idle", "nokey", "fetch", "blob", "read", "gemini", "timedout",
                "rejected", "emptytext", "parsefail", "returned"}
    /\ timeoutId \in {"none", "armed", "cleared", "fired"}
    /\ screenshotBase64 \in {"unset", "null", "", "base64"}
    /\ geminiPromise \in {"none", "pending", "resolved", "rejected"}
    /\ geminiValue \in Texts
    /\ timeoutPromise \in {"none", "armed", "fired"}
    /\ demoTimers \in 0..demoClicks
    /\ demoClicks \in 0..MaxDemo
    /\ now \in 0..MaxNow
    /\ \A g \in 1..Len(gens) :
          /\ gens[g].origin \in {"live", "demo"}
          /\ gens[g].pc \in {"primary", "wave", "done", "failed"}
          /\ \A t \in Subtypes :
                gens[g].task[t] \in {"idle", "pending", "ok", "fail", "thrown"}

\* no call of analyzeBrandFromUrl outside App has been made
NoOutcome == [request |-> <<>>, result |-> "none", value |-> "", out |-> <<>>]
\* no call of analyzeColor has been made
NoMetrics == [hex |-> <<>>, contrastWhite |-> 0, contrastBlack |-> 0,
              accessibility |-> "none"]

\* nothing has been saved
NoArchive == [name |-> "", manifest |-> FALSE, files |-> {}, fetched |-> {}]

\* the state of App after its first render
InitApp ==
    /\ apiKey \in BOOLEAN
    /\ saved = NoArchive
    /\ state = Status("idle")
    /\ brandStyle = "null"
    /\ assets = <<>>
    /\ logs = <<>>
    /\ apc = "idle"
    /\ timeoutId = "none"
    /\ screenshotBase64 = "unset"
    /\ inputParts = <<>>
    /\ geminiPromise = "none"
    /\ geminiValue = <<>>
    /\ timeoutPromise = "none"
    /\ demoTimers = 0
    /\ demoClicks = 0
    /\ gens = <<>>
    /\ now = 0
    /\ runs = <<>>

Init ==
    /\ InitApp
    /\ onLog = "none"
    /\ collaborators = [capture |-> "none", analysis |-> [kind |-> "none", text |-> <<>>]]
    /\ callResult = NoOutcome
    /\ hex = <<>>
    /\ metrics = NoMetrics

\* --------------------------------------------------------- startGeneration
\* the error generateLogoVariant / generateBrandAsset throw before they reach
\* the collaborator: getClient() without a key, style.dominantColors.join on
\* a descriptor without colours
SyncError(style) ==
    IF ~apiKey THEN KeyMsg
    ELSE IF style = "empty" THEN NoColorsMsg
    ELSE "none"

\* Promise.all over the five second-wave promises of an execution.
\* A Billboard/Merch/Poster promise carries a .catch, so it is fulfilled as
\* soon as its task has settled; an extra-logo promise has a .then only and
\* is rejected when its task is.
WavePromise(task, t) ==
    IF task[t] \in {"idle", "pending"} THEN "pending"
    ELSE IF task[t] = "ok" \/ ~IsLogo(t) THEN "fulfilled"
    ELSE "rejected"

PromiseAll(task) ==
    IF \E t \in Range(SecondWave) : WavePromise(task, t) = "rejected"
    THEN "rejected"
    ELSE IF \A t \in Range(SecondWave) : WavePromise(task, t) = "fulfilled"
    THEN "fulfilled"
    ELSE "pending"

\* a faulty variant of FirstWave: all six requests are issued before the first await
AllAtOnce(t) == TRUE

\* the tasks startGeneration issues before its first await: the primary logo,
\* LOGO_VARIANTS[0]
FirstWave(t) == t = PrimaryLogo

\* The synchronous part of startGeneration(style), up to its first await on
\* a collaborator; lg is the log at the call.  threw = the returned promise
\* is already rejected (with msg) when the microtasks have run.
startGeneration(style, origin, lg) ==
    IF style = "null"
    THEN \* setProgress(`...${style.brandName}`) raises a TypeError
         [threw |-> TRUE, msg |-> NullStyleMsg, state |-> Status("generating"),
          brandStyle |-> style, assets |-> assets, logs |-> lg, gens |-> gens]
    ELSE LET lg1 == addLogs(lg, <<"Analysis complete. Starting asset generation...",
                                  "Generating primary logo...">>)
             err == SyncError(style)
         IN  IF err # "none"
             THEN \* every task rejects without a collaborator call: the primary
                  \* is caught silently, the three brand assets are caught and
                  \* logged, the first extra logo rejects Promise.all
                  [threw |-> TRUE, msg |-> err, state |-> Status("generating"),
                   brandStyle |-> style, assets |-> <<>>,
                   logs |-> addLogs(lg1,
                       [i \in 1..Len(BRAND_ASSETS) |->
                           "Error generating " \o BRAND_ASSETS[i] \o ": " \o err]),
                   gens |-> Append(gens, [origin |-> origin, pc |-> "failed",
                                          task |-> [t \in Subtypes |-> "thrown"]])]
             ELSE [threw |-> FALSE, msg |-> "", state |-> Status("generating"),
                   brandStyle |-> style, assets |-> <<>>, logs |-> lg1,
                   gens |-> Append(gens, [origin |-> origin, pc |-> "primary",
                       task |-> [t \in Subtypes |->
                           IF FirstWave(t) THEN "pending" ELSE "idle"]])]

\* the catch block of handleAnalyze
CatchAnalyze(msg, lg) ==
    [state |-> Error(msg), logs |-> addLog(lg, "FATAL ERROR: " \o msg)]

NumSettled ==
    Cardinality({gt \in (1..Len(gens)) \X Subtypes :
                    gens[gt[1]].task[gt[2]] \in {"ok", "fail"}})

\* A generation request of execution g settles.
\*   outcome "image":   the response carries an inline image
\*           "noimage": the response carries none
\*           "error":   the collaborator call rejects
Settle(g, t, outcome) ==
    /\ gens[g].task[t] = "pending"
    /\ LET ok == outcome = "image"
           msg == TaskError(t, outcome)
           gen == gens[g]
           as1 == IF ok THEN AppendAsset(assets, GeneratedAsset(g, t)) ELSE assets
       IN  IF t = PrimaryLogo
           THEN \* the awaited primary: a failure is caught by console.error only;
                \* then the second wave is dispatched
                /\ assets' = as1
                /\ gens' = [gens EXCEPT ![g].pc = "wave",
                              ![g].task = [u \in Subtypes |->
                                  IF u = t THEN (IF ok THEN "ok" ELSE "fail")
                                  ELSE "pending"]]
                /\ UNCHANGED <<state, brandStyle, logs>>
           ELSE LET task1 == [gen.task EXCEPT ![t] = IF ok THEN "ok" ELSE "fail"]
                    lg1 == IF IsLogo(t) THEN logs
                           ELSE IF ok THEN addLog(logs, "Generated " \o t \o " asset.")
                           ELSE addLog(logs, "Error generating " \o t \o ": " \o msg)
                    all == IF gen.pc = "wave" THEN PromiseAll(task1) ELSE "settled"
                IN  /\ assets' = as1
                    /\ brandStyle' = brandStyle
                    /\ CASE all = "fulfilled" ->
                              /\ gens' = [gens EXCEPT ![g].task = task1, ![g].pc = "done"]
                              /\ state' = Status("complete")
                              /\ logs' = addLog(lg1, "All assets generated successfully.")
                         [] all = "rejected" ->
                              /\ gens' = [gens EXCEPT ![g].task = task1, ![g].pc = "failed"]
                              /\ IF gen.origin = "live"
                                 THEN /\ state' = CatchAnalyze(msg, lg1).state
                                      /\ logs' = CatchAnalyze(msg, lg1).logs
                                 ELSE \* unhandled rejection in the timer callback
                                      /\ state' = state
                                      /\ logs' = lg1
                         [] OTHER ->
                              /\ gens' = [gens EXCEPT ![g].task = task1]
                              /\ state' = state
                              /\ logs' = lg1
    /\ UNCHANGED <<apiKey, runs, now, calls, saved, capture, analysis, demo>>

\* ----------------------------------------------------- analyzeBrandFromUrl
\* Stage B up to the await of Promise.race: shot is what
\* fetchScreenshotBase64 resolved to (null, "" or base64 data), lg the log.
\* The inline image part is pushed only for a truthy screenshotBase64.
StageB(shot, lg) ==
    LET hasImage == shot \notin {"null", ""}
    IN  [inputParts |-> IF hasImage THEN <<"inlineData", "text">> ELSE <<"text">>,
         logs |-> addLogs(lg,
            <<IF hasImage THEN "Visual context acquired. Attaching image to prompt."
              ELSE "No visual context available. Proceeding with text/search analysis.",
              "Step 2: Sending request to Gemini 3 Pro...">>)]

\* fetchScreenshotBase64 resolves to shot, having logged lines; then
\* analyzeBrandFromUrl runs Stage B and awaits the race; after holds the lines
\* logged by handlers that run after that continuation in the same task
EndStageA(shot, lines, after) ==
    /\ apc' = "gemini"
    /\ screenshotBase64' = shot
    /\ inputParts' = StageB(shot, addLogs(logs, lines)).inputParts
    /\ logs' = addLogs(StageB(shot, addLogs(logs, lines)).logs, after)
    /\ geminiPromise' = "pending"
    /\ timeoutPromise' = "armed"
    /\ UNCHANGED <<apiKey, runs, now, calls, saved, state, brandStyle, assets, geminiValue, demo, gens>>

\* a faulty variant of CatchScreenshot: the error of the capture request is not caught
\* in fetchScreenshotBase64 and reaches the catch block of handleAnalyze
RethrowScreenshot(msg) ==
    /\ apc' = "rejected"
    /\ state' = Error(msg)
    /\ logs' = addLog(logs, "FATAL ERROR: " \o msg)
    /\ UNCHANGED <<apiKey, runs, now, calls, saved, brandStyle, assets, screenshotBase64, inputParts,
                   geminiPromise, geminiValue, timeoutPromise, demo, gens>>

\* the catch block of fetchScreenshotBase64
CatchScreenshot(msg) ==
    EndStageA("null", <<"Screenshot failed (using text fallback): " \o msg>>, <<>>)

\* handleAnalyze(url), offered by the URL form, which is rendered only in the
\* idle state; runs analyzeBrandFromUrl up to `await fetch(screenshotUrl)`
handleAnalyze ==
    /\ state.status = "idle"
    /\ IF ~apiKey
       THEN \* getClient() throws
            /\ apc' = "nokey"
            /\ state' = CatchAnalyze(KeyMsg, <<"Starting analysis">>).state
            /\ logs' = CatchAnalyze(KeyMsg, <<"Starting analysis">>).logs
            /\ UNCHANGED timeoutId
       ELSE /\ apc' = "fetch"
            /\ state' = Status("analyzing")
            /\ logs' = <<"Starting analysis",
                         "Step 1: Fetching visual context...",
                         "Initiating screenshot capture...",
                         "Sending request to screenshot service...">>
            /\ timeoutId' = "armed"
    /\ UNCHANGED <<apiKey, runs, now, calls, saved, brandStyle, assets, screenshotBase64, inputParts,
                   geminiPromise, geminiValue, timeoutPromise, demo, gens>>

\* fetch(screenshotUrl) resolves with response headers
FetchResponds(ok) ==
    /\ apc = "fetch"
    /\ IF ok
       THEN /\ apc' = "blob"
            /\ timeoutId' = "cleared"
            /\ UNCHANGED <<apiKey, runs, now, calls, saved, app, screenshotBase64, inputParts,
                           geminiPromise, geminiValue, timeoutPromise, demo, gens>>
       ELSE /\ timeoutId' = "cleared"
            /\ EndStageA("null", <<"Screenshot service returned status: 500">>, <<>>)

\* fetch(screenshotUrl) rejects with a network error; the timer stays armed
FetchRejects ==
    /\ apc = "fetch"
    /\ timeoutId' = timeoutId
    /\ CatchScreenshot(CaptureErrMsg)

\* the 8 s timer: controller.abort() rejects a fetch that is still pending
ScreenshotTimeout ==
    /\ timeoutId = "armed"
    /\ timeoutId' = "fired"
    /\ IF apc = "fetch"
       THEN CatchScreenshot(AbortMsg)
       ELSE UNCHANGED <<apiKey, runs, now, calls, saved, app, screenshotBase64, analysis, demo, gens>>

\* response.blob() settles
BlobSettles(outcome) ==
    /\ apc = "blob"
    /\ timeoutId' = timeoutId
    /\ CASE outcome = "image" ->
              /\ apc' = "read"
              /\ logs' = addLog(logs, "Screenshot captured successfully. Converting to Base64...")
              /\ UNCHANGED <<apiKey, runs, now, calls, saved, state, brandStyle, assets, screenshotBase64,
                             inputParts, geminiPromise, geminiValue, timeoutPromise,
                             demo, gens>>
         [] outcome = "text/html" ->
              EndStageA("null", <<"Invalid content type received: text/html">>, <<>>)
         [] outcome = "reject" ->
              CatchScreenshot(CaptureErrMsg)

\* the FileReader finishes
\*   "data":  result is a data URL with base64 data
\*   "nodata": result is a data URL with nothing after the comma
\*   "empty": loadend with an empty result
\*   "error": error, followed by loadend with a null result
ReaderSettles(outcome) ==
    /\ apc = "read"
    /\ timeoutId' = timeoutId
    /\ CASE outcome = "data" -> EndStageA("base64", <<>>, <<>>)
         [] outcome = "nodata" -> EndStageA("", <<>>, <<>>)
         [] outcome = "empty" -> EndStageA("null", <<"FileReader result is empty.">>, <<>>)
         [] outcome = "error" -> EndStageA("null", <<"Failed to read blob data.">>,
                                                   <<"FileReader result is empty.">>)

\* a faulty variant of HandleResponse: without the inner try/catch the SyntaxError of
\* JSON.parse leaves analyzeBrandFromUrl as it is
HandleResponseNoWrap(text) ==
    IF text = <<>>
    THEN [threw |-> TRUE, msg |-> EmptyMsg, apc |-> "emptytext",
          lines |-> <<"Gemini response received.",
                      "Error: Empty text response from Gemini.">>]
    ELSE LET result == JsonParse(StripFences(text))
         IN  IF result = "SyntaxError"
             THEN [threw |-> TRUE, msg |-> "Unexpected token in JSON", apc |-> "parsefail",
                   lines |-> <<"Gemini response received.",
                               "Step 3: Parsing analysis results...">>]
             ELSE [threw |-> FALSE, value |-> result, apc |-> "returned",
                   lines |-> <<"Gemini response received.",
                               "Step 3: Parsing analysis results...",
                               "Analysis complete. Style definition ready.">>]

\* what analyzeBrandFromUrl does with a response whose text is text:
\* the lines it logs and the descriptor it returns or the error it throws
HandleResponse(text) ==
    IF text = <<>>
    THEN [threw |-> TRUE, msg |-> EmptyMsg, apc |-> "emptytext",
          lines |-> <<"Gemini response received.",
                      "Error: Empty text response from Gemini.">>]
    ELSE LET result == JsonParse(StripFences(text))
         IN  IF result = "SyntaxError"
             THEN [threw |-> TRUE, msg |-> ParseMsg, apc |-> "parsefail",
                   lines |-> <<"Gemini response received.",
                               "Step 3: Parsing analysis results...",
                               "Error: Invalid JSON format received.">>]
             ELSE [threw |-> FALSE, value |-> result, apc |-> "returned",
                   lines |-> <<"Gemini response received.",
                               "Step 3: Parsing analysis results...",
                               "Analysis complete. Style definition ready.">>]

\* a faulty variant of AnalysisThrows: handleAnalyze answers a failed extraction by
\* generating from the demo descriptor
AnalysisFallsBack(msg, lines) ==
    LET sg == startGeneration(getDemoBrandStyle, "live",
                  addLogs(logs, lines \o <<"Critical Error: " \o msg>>))
    IN  /\ state' = sg.state
        /\ logs' = sg.logs
        /\ brandStyle' = sg.brandStyle
        /\ assets' = sg.assets
        /\ gens' = sg.gens

\* analyzeBrandFromUrl throws msg out of its outer catch into handleAnalyze
AnalysisThrows(msg, lines) ==
    LET c == CatchAnalyze(msg, addLogs(logs, lines \o <<"Critical Error: " \o msg>>))
    IN  /\ state' = c.state
        /\ logs' = c.logs
        /\ UNCHANGED <<brandStyle, assets, gens>>

\* a faulty variant of RacePending: the continuation hangs on geminiPromise and on the
\* timer separately instead of on their race
RaceIgnored == apc \in {"gemini", "timedout"}

\* Promise.race(geminiPromise, timeoutPromise) is still undecided
RacePending == apc = "gemini"

\* the analysis collaborator resolves with a response whose text is text
GeminiResolves(text) ==
    /\ geminiPromise = "pending"
    /\ geminiPromise' = "resolved"
    /\ geminiValue' = text
    /\ IF RacePending
       THEN LET r == HandleResponse(text)
            IN  /\ apc' = r.apc
                /\ IF r.threw
                   THEN AnalysisThrows(r.msg, r.lines)
                   ELSE LET sg == startGeneration(r.value, "live", addLogs(logs, r.lines))
                            c == CatchAnalyze(sg.msg, sg.logs)
                        IN  /\ brandStyle' = sg.brandStyle
                            /\ assets' = sg.assets
                            /\ gens' = sg.gens
                            /\ state' = IF sg.threw THEN c.state ELSE sg.state
                            /\ logs' = IF sg.threw THEN c.logs ELSE sg.logs
       ELSE UNCHANGED <<app, apc, gens>>
    /\ UNCHANGED <<apiKey, runs, now, calls, saved, capture, inputParts, timeoutPromise, demo>>

\* the analysis collaborator rejects
GeminiRejects ==
    /\ geminiPromise = "pending"
    /\ geminiPromise' = "rejected"
    /\ IF RacePending
       THEN /\ apc' = "rejected"
            /\ AnalysisThrows(AnalysisErrMsg, <<>>)
       ELSE UNCHANGED <<app, apc, gens>>
    /\ UNCHANGED <<apiKey, runs, now, calls, saved, capture, inputParts, geminiValue, timeoutPromise, demo>>

\* a faulty variant of GeminiTimeout: the rejection of the timer reaches handleAnalyze
\* whether or not the race is already decided
GeminiTimeoutUnraced ==
    /\ timeoutPromise = "armed"
    /\ timeoutPromise' = "fired"
    /\ apc' = "timedout"
    /\ AnalysisThrows(TimeoutMsg, <<>>)
    /\ UNCHANGED <<apiKey, runs, now, calls, saved, capture, inputParts, geminiPromise, geminiValue, demo>>

\* the 40 s timer, which is never cleared
GeminiTimeout ==
    /\ timeoutPromise = "armed"
    /\ timeoutPromise' = "fired"
    /\ IF RacePending
       THEN /\ apc' = "timedout"
            /\ AnalysisThrows(TimeoutMsg, <<>>)
       ELSE UNCHANGED <<app, apc, gens>>
    /\ UNCHANGED <<apiKey, runs, now, calls, saved, capture, inputParts, geminiPromise, geminiValue, demo>>

\* ------------------------------------- analyzeBrandFromUrl, called directly
\* the log sinks a caller can pass as onLog: none, one that stores the line
\* (as addLog does), one that raises an error
Sinks == {"undefined", "addLog", "throws"}
SinkMsg == "sink failed"

\* how the capture collaborator can behave during a call, and what
\* fetchScreenshotBase64 then resolves to
CaptureBehaviours ==
    {"fetch rejects", "aborted", "status 500", "blob rejects", "text/html",
     "data", "nodata", "empty", "error"}
CaptureResult(cap) ==
    CASE cap = "data" -> "base64"
      [] cap = "nodata" -> ""
      [] OTHER -> "null"

\* how the analysis collaborator can behave: it resolves with a text, it
\* rejects, or it is silent until the 40 s timer fires
AnalysisBehaviours ==
    {[kind |-> "resolves", text |-> t] : t \in Texts}
       \cup {[kind |-> k, text |-> <<>>] : k \in {"rejects", "timeout"}}

\* onLog?.(line) for each of lines: what the sink has received afterwards
SinkOut(sink, lines) == IF sink = "addLog" THEN lines ELSE <<>>

\* analyzeBrandFromUrl(url, sink) against collaborators that behave as cap
\* and ana: the analysis request it sent (<<>> if none) and how it ended
AnalyzeCall(sink, cap, ana) ==
    IF ~apiKey
    THEN [request |-> <<>>, result |-> "threw", value |-> KeyMsg, out |-> <<>>]
    ELSE IF sink = "throws"
    THEN \* onLog?.("Step 1: ...") raises and nothing catches it
         [request |-> <<>>, result |-> "threw", value |-> SinkMsg, out |-> <<>>]
    ELSE LET b == StageB(CaptureResult(cap), <<"Step 1: Fetching visual context...">>)
         IN  CASE ana.kind = "timeout" ->
                    [request |-> b.inputParts, result |-> "threw", value |-> TimeoutMsg,
                     out |-> SinkOut(sink, b.logs \o <<"Critical Error: " \o TimeoutMsg>>)]
               [] ana.kind = "rejects" ->
                    [request |-> b.inputParts, result |-> "threw", value |-> AnalysisErrMsg,
                     out |-> SinkOut(sink, b.logs \o <<"Critical Error: " \o AnalysisErrMsg>>)]
               [] OTHER ->
                    LET r == HandleResponse(ana.text)
                    IN  IF r.threw
                        THEN [request |-> b.inputParts, result |-> "threw", value |-> r.msg,
                              out |-> SinkOut(sink, b.logs \o r.lines
                                                  \o <<"Critical Error: " \o r.msg>>)]
                        ELSE [request |-> b.inputParts, result |-> "returned",
                              value |-> r.value, out |-> SinkOut(sink, b.logs \o r.lines)]

\* a caller other than App calls analyzeBrandFromUrl with the sink onLog
CallAnalyze ==
    /\ onLog \in Sinks
    /\ callResult = NoOutcome
    /\ callResult' = AnalyzeCall(onLog, collaborators.capture, collaborators.analysis)
    /\ UNCHANGED <<apiKey, runs, now, onLog, collaborators, hex, metrics, saved,
                   app, capture, analysis, demo, gens>>

\* ---------------------------------------------------------- handleDemoMode
\* a faulty variant of handleDemoMode whose button is rendered in every state
handleDemoModeAlways ==
    /\ demoClicks < MaxDemo
    /\ demoClicks' = demoClicks + 1
    /\ demoTimers' = demoTimers + 1
    /\ state' = Status("analyzing")
    /\ logs' = <<"Demo Mode activated.", "Skipping live analysis...">>
    /\ UNCHANGED <<apiKey, runs, now, calls, saved, brandStyle, assets, capture, analysis, gens>>

\* offered while analyzing ("Stuck? Skip to Demo Result") and in the error
\* state ("Try Demo Instead")
handleDemoMode ==
    /\ state.status \in {"analyzing", "error"}
    /\ demoClicks < MaxDemo
    /\ demoClicks' = demoClicks + 1
    /\ demoTimers' = demoTimers + 1
    /\ state' = Status("analyzing")
    /\ logs' = <<"Demo Mode activated.", "Skipping live analysis...">>
    /\ UNCHANGED <<apiKey, runs, now, calls, saved, brandStyle, assets, capture, analysis, gens>>

\* the 1 s timer of handleDemoMode
DemoTimeout ==
    /\ demoTimers > 0
    /\ demoTimers' = demoTimers - 1
    /\ LET sg == startGeneration(getDemoBrandStyle, "demo",
                     addLog(logs, "Loaded 'NeonFlux' demo brand profile."))
       IN  /\ state' = sg.state
           /\ brandStyle' = sg.brandStyle
           /\ assets' = sg.assets
           /\ logs' = sg.logs
           /\ gens' = sg.gens
    /\ UNCHANGED <<apiKey, runs, now, calls, saved, capture, analysis, demoClicks>>

\* a generation request settles, in a session where the collaborator answers
\* at most MaxSettled requests
TaskSettles(g, t, outcome) ==
    /\ gens[g].task[t] = "pending"
    /\ NumSettled < MaxSettled
    /\ Settle(g, t, outcome)

\* ------------------------------------------------------- handleDownloadZip
\* style.brandName; a descriptor parsed from {} has none
BrandName(style) ==
    CASE style = "demo" -> "NeonFlux"
      [] style = "live" -> "Acme Corp"
      [] OTHER -> "undefined"

\* the words of a subtype label, which are separated by white space
Words(t) ==
    CASE t = "Minimalist Wordmark" -> <<"Minimalist", "Wordmark">>
      [] t = "Abstract Icon" -> <<"Abstract", "Icon">>
      [] t = "App Icon" -> <<"App", "Icon">>
      [] OTHER -> <<t>>

\* subtype.replace(/\s+/g, '_')
RECURSIVE JoinWords(_)
JoinWords(ws) ==
    IF Len(ws) = 1 THEN ws[1] ELSE ws[1] \o "_" \o JoinWords(Tail(ws))

\* `${asset.type}s/${asset.subtype.replace(/\s+/g, '_')}.png`
Path(asset) == asset.type \o "s/" \o JoinWords(Words(asset.subtype)) \o ".png"

\* folder.file(path, content): an entry with the same path is replaced
ZipFile(files, path, content) ==
    {f \in files : f.path # path} \cup {[path |-> path, content |-> content]}

\* the loop over the assets, from the i-th on; fails holds the positions of
\* the assets whose fetch or blob() rejects (caught by console.error)
RECURSIVE AddImages(_, _, _)
AddImages(files, i, fails) ==
    IF i > Len(assets) THEN files
    ELSE AddImages(IF i \in fails THEN files
                   ELSE ZipFile(files, Path(assets[i]), assets[i]),
                   i + 1, fails)

\* the button 'Download Brand Asset Kit' is rendered with the results and is
\* disabled while there are fewer than three assets
DownloadEnabled ==
    /\ brandStyle # "null"
    /\ state.status \in {"complete", "generating"}
    /\ Len(assets) >= 3

\* handleDownloadZip(), together with the fetches it awaits; it works on the
\* brandStyle and assets of the render in which the button was pressed
handleDownloadZip(fails) ==
    /\ DownloadEnabled
    /\ IF brandStyle = "empty"
       THEN \* brandStyle.brandName.replace raises a TypeError
            saved' = saved
       ELSE saved' = [name |-> BrandName(brandStyle) \o "_BrandKit.zip",
                      \* folder.file('style-guide.json', ...)
                      manifest |-> TRUE,
                      files |-> AddImages({}, 1, fails),
                      fetched |-> {assets[i] : i \in (1..Len(assets)) \ fails}]
    /\ UNCHANGED <<apiKey, runs, now, calls, app, capture, analysis, demo, gens>>

\* a millisecond passes
Tick ==
    /\ now < MaxNow
    /\ now' = now + 1
    /\ UNCHANGED <<apiKey, runs, calls, saved, app, capture, analysis, demo, gens>>

\* ------------------------------------------------------------- analyzeColor
\* A string is a sequence of characters.  A relative luminance l is the
\* integer l * Scale; a contrast ratio is kept exact, as the pair of its
\* numerator and denominator, until toFixed2 rounds it to hundredths, so
\* that 21.00 is 2100 and the threshold 4.5 is 450.
Scale == 10000000

\* a faulty variant of DigitValue that knows no upper-case letter
DigitValueNoUpper ==
    ("0" :> 0) @@ ("1" :> 1) @@ ("2" :> 2) @@ ("3" :> 3) @@ ("4" :> 4) @@
    ("5" :> 5) @@ ("6" :> 6) @@ ("7" :> 7) @@ ("8" :> 8) @@ ("9" :> 9) @@
    ("a" :> 10) @@ ("b" :> 11) @@ ("c" :> 12) @@ ("d" :> 13) @@
    ("e" :> 14) @@ ("f" :> 15)

\* the characters [a-f\d] matches under the i flag, with parseInt(c, 16)
DigitValue ==
    ("0" :> 0) @@ ("1" :> 1) @@ ("2" :> 2) @@ ("3" :> 3) @@ ("4" :> 4) @@
    ("5" :> 5) @@ ("6" :> 6) @@ ("7" :> 7) @@ ("8" :> 8) @@ ("9" :> 9) @@
    ("a" :> 10) @@ ("b" :> 11) @@ ("c" :> 12) @@ ("d" :> 13) @@
    ("e" :> 14) @@ ("f" :> 15) @@
    ("A" :> 10) @@ ("B" :> 11) @@ ("C" :> 12) @@ ("D" :> 13) @@
    ("E" :> 14) @@ ("F" :> 15)

\* parseInt(s, 16) of a string of hexadecimal digits
RECURSIVE parseInt16(_)
parseInt16(s) ==
    IF s = <<>> THEN 0
    ELSE 16 * parseInt16(SubSeq(s, 1, Len(s) - 1)) + DigitValue[s[Len(s)]]

\* a faulty variant of hexToRgb whose pattern has no end anchor
hexToRgbNoAnchor(h) ==
    LET digits == IF h # <<>> /\ h[1] = "#" THEN Tail(h) ELSE h
    IN  IF Len(digits) >= 6 /\ \A i \in 1..6 : digits[i] \in DOMAIN DigitValue
        THEN <<parseInt16(SubSeq(digits, 1, 2)),
               parseInt16(SubSeq(digits, 3, 4)),
               parseInt16(SubSeq(digits, 5, 6))>>
        ELSE <<>>

\* /^#?([a-f\d]{2})([a-f\d]{2})([a-f\d]{2})$/i: the triple <<r, g, b>>, or
\* the empty tuple for null
hexToRgb(h) ==
    LET digits == IF h # <<>> /\ h[1] = "#" THEN Tail(h) ELSE h
    IN  IF Len(digits) = 6 /\ \A i \in 1..6 : digits[i] \in DOMAIN DigitValue
        THEN <<parseInt16(SubSeq(digits, 1, 2)),
               parseInt16(SubSeq(digits, 3, 4)),
               parseInt16(SubSeq(digits, 5, 6))>>
        ELSE <<>>

\* Linear[v + 1] is the linearised channel v, for v in 0..255:
\* v / 255 / 12.92 up to 0.03928 and ((v / 255 + 0.055) / 1.055) ^ 2.4 above,
\* times Scale, rounded to the nearest integer
Linear ==
  <<
    0, 3035, 6071, 9106, 12141, 15176, 18212, 21247,
    24282, 27317, 30353, 33465, 36765, 40247, 43914, 47770,
    51815, 56054, 60488, 65121, 69954, 74990, 80232, 85681,
    91341, 97212, 103298, 109601, 116122, 122865, 129830, 137021,
    144438, 152085, 159963, 168074, 176420, 185002, 193824, 202886,
    212190, 221739, 231534, 241576, 251869, 262412, 273209, 284260,
    295568, 307134, 318960, 331048, 343398, 356013, 368895, 382044,
    395462, 409152, 423114, 437350, 451862, 466651, 481718, 497066,
    512695, 528606, 544803, 561285, 578054, 595112, 612461, 630100,
    648033, 666259, 684782, 703601, 722719, 742136, 761854, 781874,
    802198, 822827, 843762, 865005, 886556, 908417, 930590, 953075,
    975873, 998987, 1022417, 1046165, 1070231, 1094617, 1119324, 1144354,
    1169707, 1195384, 1221388, 1247718, 1274377, 1301365, 1328683, 1356333,
    1384316, 1412633, 1441285, 1470273, 1499598, 1529262, 1559265, 1589608,
    1620294, 1651322, 1682694, 1714411, 1746474, 1778884, 1811642, 1844750,
    1878208, 1912017, 1946178, 1980693, 2015563, 2050787, 2086369, 2122308,
    2158605, 2195262, 2232280, 2269659, 2307400, 2345506, 2383976, 2422811,
    2462013, 2501583, 2541521, 2581829, 2622507, 2663556, 2704978, 2746773,
    2788943, 2831487, 2874408, 2917706, 2961383, 3005438, 3049873, 3094689,
    3139887, 3185468, 3231432, 3277781, 3324515, 3371636, 3419144, 3467041,
    3515326, 3564001, 3613068, 3662526, 3712377, 3762621, 3813260, 3864294,
    3915725, 3967552, 4019778, 4072402, 4125426, 4178851, 4232677, 4286905,
    4341536, 4396572, 4452012, 4507858, 4564110, 4620770, 4677838, 4735315,
    4793202, 4851499, 4910208, 4969330, 5028865, 5088813, 5149177, 5209956,
    5271151, 5332764, 5394795, 5457245, 5520114, 5583404, 5647115, 5711248,
    5775804, 5840784, 5906188, 5972018, 6038273, 6104956, 6172066, 6239604,
    6307571, 6375969, 6444797, 6514056, 6583748, 6653873, 6724432, 6795425,
    6866853, 6938718, 7011019, 7083758, 7156935, 7230551, 7304607, 7379104,
    7454042, 7529422, 7605245, 7681511, 7758222, 7835378, 7912979, 7991027,
    8069523, 8148466, 8227858, 8307699, 8387990, 8468732, 8549926, 8631572,
    8713671, 8796224, 8879231, 8962694, 9046612, 9130987, 9215819, 9301109,
    9386857, 9473065, 9559734, 9646862, 9734453, 9822506, 9911021, 10000000
  >>
\* w / 10000 times l, with the product taken in two halves to stay within
\* 32 bits
Weighted(w, l) == w * (l \div 10000) + (w * (l % 10000)) \div 10000

luminance(r, g, b) ==
    Weighted(2126, Linear[r + 1]) + Weighted(7152, Linear[g + 1])
        + Weighted(722, Linear[b + 1])

Max(a, b) == IF a >= b THEN a ELSE b
Min(a, b) == IF a <= b THEN a ELSE b

\* a faulty variant of calculateContrast that adds 0.04 instead of 0.05
calculateContrastFlare4(rgb1, rgb2) ==
    LET lum1 == luminance(rgb1[1], rgb1[2], rgb1[3])
        lum2 == luminance(rgb2[1], rgb2[2], rgb2[3])
    IN  [num |-> Max(lum1, lum2) + 4 * (Scale \div 100),
         den |-> Min(lum1, lum2) + 4 * (Scale \div 100)]

\* (brightest + 0.05) / (darkest + 0.05), as numerator and denominator
calculateContrast(rgb1, rgb2) ==
    LET lum1 == luminance(rgb1[1], rgb1[2], rgb1[3])
        lum2 == luminance(rgb2[1], rgb2[2], rgb2[3])
        brightest == Max(lum1, lum2)
        darkest == Min(lum1, lum2)
    IN  [num |-> brightest + 5 * (Scale \div 100),
         den |-> darkest + 5 * (Scale \div 100)]

\* parseFloat(x.toFixed(2)), in hundredths: the nearest hundredth, halves up
toFixed2(x) == (200 * x.num + x.den) \div (2 * x.den)

\* a faulty variant of Accessibility whose comparisons are strict
AccessibilityStrict(contrastWhite, contrastBlack) ==
    IF contrastWhite > 700 \/ contrastBlack > 700 THEN "AAA"
    ELSE IF contrastWhite > 450 \/ contrastBlack > 450 THEN "AA"
    ELSE "Fail"

\* a faulty variant of Accessibility that asks both contrasts to reach the threshold
AccessibilityBoth(contrastWhite, contrastBlack) ==
    IF contrastWhite >= 700 /\ contrastBlack >= 700 THEN "AAA"
    ELSE IF contrastWhite >= 450 /\ contrastBlack >= 450 THEN "AA"
    ELSE "Fail"

\* 'Fail', then 'AA' if either contrast is at least 4.5, then 'AAA' if either
\* is at least 7
Accessibility(contrastWhite, contrastBlack) ==
    IF contrastWhite >= 700 \/ contrastBlack >= 700 THEN "AAA"
    ELSE IF contrastWhite >= 450 \/ contrastBlack >= 450 THEN "AA"
    ELSE "Fail"

analyzeColor(h) ==
    LET rgb == hexToRgb(h)
        white == <<255, 255, 255>>
        black == <<0, 0, 0>>
    IN  IF rgb = <<>>
        THEN [hex |-> h, contrastWhite |-> 0, contrastBlack |-> 0,
              accessibility |-> "Invalid"]
        ELSE LET contrastWhite == toFixed2(calculateContrast(rgb, white))
                 contrastBlack == toFixed2(calculateContrast(rgb, black))
             IN  [hex |-> h,
                  contrastWhite |-> contrastWhite,
                  contrastBlack |-> contrastBlack,
                  accessibility |-> Accessibility(contrastWhite, contrastBlack)]

\* the strings analyzeColor is called with: every string of at most
\* MaxHexLen characters over Alphabet, and every colour, with or without the
\* leading '#', whose three channels are among Channels
Alphabet == {"#", "0", "F", "g"}
Channels ==
    {<<"0", "0">>, <<"5", "9">>, <<"7", "6">>, <<"7", "7">>, <<"9", "a">>,
     <<"9", "A">>, <<"f", "f">>}
Inputs ==
    UNION {[1..n -> Alphabet] : n \in 0..MaxHexLen}
    \cup {p \o c1 \o c2 \o c3 : p \in {<<>>, <<"#">>},
                                 c1 \in Channels, c2 \in Channels, c3 \in Channels}

\* one call analyzeColor(hex)
CallAnalyzeColor ==
    /\ metrics = NoMetrics
    /\ metrics' = analyzeColor(hex)
    /\ UNCHANGED <<apiKey, runs, now, onLog, collaborators, callResult, hex, saved,
                   app, capture, analysis, demo, gens>>

\* ------------------------------------------ the earlier App (src/App.tsx)
\* It shares the names state, brandStyle and assets with the newer App; its
\* other definitions carry the prefix App1_.  An execution of its
\* handleAnalyze is a record of runs:
\*   pc    "analysis" (awaiting analyzeBrandFromUrl), "tasks" (awaiting
\*         Promise.all), "done" (returned) or "failed" (left through catch)
\*   task  the status of each of the eight generation tasks

SyntaxMsg == "Unexpected token in JSON"

\* the asset generateLogoVariant / generateSocialMock resolve to; gen is the
\* execution of handleAnalyze that issued the task
App1_GeneratedAsset(r, t) ==
    [gen |-> r,
     id |-> IF App1_IsLogo(t)
            THEN [prefix |-> "logo", type |-> "", ms |-> now, random |-> <<r, t>>]
            ELSE [prefix |-> "social", type |-> t, ms |-> now, random |-> <<>>],
     type |-> IF App1_IsLogo(t) THEN "logo" ELSE "social", subtype |-> t]

\* the URLs typed into UrlInput (strings as sequences of characters), and
\* url.trim()
App1_Urls == {<<>>, <<" ">>, <<"a", ".", "c", "o">>, <<" ", "a", ".", "c", "o">>}

RECURSIVE TrimStart(_)
TrimStart(url) ==
    IF url # <<>> /\ Head(url) = " " THEN TrimStart(Tail(url)) ELSE url

RECURSIVE TrimEnd(_)
TrimEnd(url) ==
    IF url # <<>> /\ url[Len(url)] = " "
    THEN TrimEnd(SubSeq(url, 1, Len(url) - 1))
    ELSE url

Trim(url) == TrimStart(TrimEnd(url))

\* the isLoading prop App passes to UrlInput: it disables the input and the
\* submit button
App1_isLoading == state.status \in {"analyzing", "generating"}

\* the form can be submitted (button enabled, or Enter in the enabled input)
\* and handleSubmit passes the URL on
App1_SubmitEnabled(url) == ~App1_isLoading /\ Trim(url) # <<>>

\* UrlInput.handleSubmit(url) and handleAnalyze(url) up to its first await;
\* without a key getClient() throws in analyzeBrandFromUrl and the catch
\* block of handleAnalyze runs in the same task
App1_handleAnalyze(url) ==
    /\ App1_SubmitEnabled(url)
    /\ IF ~apiKey
       THEN /\ state' = Error(KeyMsg)
            /\ runs' = Append(runs, [pc |-> "failed",
                                     task |-> [t \in App1_Tasks |-> "idle"]])
       ELSE /\ state' = Status("analyzing")
            /\ runs' = Append(runs, [pc |-> "analysis",
                                     task |-> [t \in App1_Tasks |-> "idle"]])
    /\ UNCHANGED <<apiKey, now, calls, saved, brandStyle, assets, logs, capture,
                   analysis, demo, gens>>

\* the catch block of the earlier handleAnalyze, for execution r
App1_Catch(r, msg) ==
    /\ state' = Error(msg)
    /\ runs' = [runs EXCEPT ![r].pc = "failed"]

\* handleAnalyze from setBrandStyle(style) to `await Promise.all`, for a
\* style that is not null: the eight tasks are issued at once.  A task whose
\* generate* call throws before it reaches the collaborator is rejected and
\* caught in the same task; when that happens to all eight, Promise.all is
\* fulfilled and the state is complete before the task ends.
App1_Dispatch(r, style) ==
    /\ brandStyle' = style
    /\ assets' = <<>>
    /\ IF SyncError(style) # "none"
       THEN /\ state' = Status("complete")
            /\ runs' = [runs EXCEPT ![r].pc = "done",
                                    ![r].task = [t \in App1_Tasks |-> "thrown"]]
       ELSE /\ state' = Status("generating")
            /\ runs' = [runs EXCEPT ![r].pc = "tasks",
                                    ![r].task = [t \in App1_Tasks |-> "pending"]]

\* the analysis collaborator answers execution r with a response whose text
\* is text
App1_AnalysisResolves(r, text) ==
    /\ runs[r].pc = "analysis"
    /\ IF text = <<>>
       THEN App1_Catch(r, EmptyMsg) /\ UNCHANGED <<brandStyle, assets>>
       ELSE LET style == JsonParse(text)
            IN  IF style = "SyntaxError"
                THEN App1_Catch(r, SyntaxMsg) /\ UNCHANGED <<brandStyle, assets>>
                ELSE IF style = "null"
                THEN \* setBrandStyle(null), setState(generating), then
                     \* style.brandName raises a TypeError
                     /\ App1_Catch(r, NullStyleMsg)
                     /\ brandStyle' = style
                     /\ assets' = assets
                ELSE App1_Dispatch(r, style)
    /\ UNCHANGED <<apiKey, now, calls, saved, logs, capture, analysis, demo, gens>>

\* the analysis collaborator rejects the call of execution r
App1_AnalysisRejects(r) ==
    /\ runs[r].pc = "analysis"
    /\ App1_Catch(r, AnalysisErrMsg)
    /\ UNCHANGED <<apiKey, now, calls, saved, brandStyle, assets, logs, capture,
                   analysis, demo, gens>>

\* a faulty variant of App1_PromiseAll: the eight promises carry no .catch, so that
\* the rejection of one rejects Promise.all
App1_PromiseAllNoCatch(task) ==
    IF \E t \in App1_Tasks : task[t] = "fail" THEN "rejected"
    ELSE IF \E t \in App1_Tasks : task[t] = "pending" THEN "pending"
    ELSE "fulfilled"

\* Promise.all over the eight promises of an execution, each of which
\* carries a .catch: fulfilled once no task is pending
App1_PromiseAll(task) ==
    IF \E t \in App1_Tasks : task[t] = "pending" THEN "pending" ELSE "fulfilled"

\* a generation request of execution r settles: with an image ("image"),
\* without one ("noimage": generate* throws), or rejected ("error")
App1_Settle(r, t, outcome) ==
    /\ runs[r].task[t] = "pending"
    /\ LET ok == outcome = "image"
           task1 == [runs[r].task EXCEPT ![t] = IF ok THEN "ok" ELSE "fail"]
           all == IF runs[r].pc = "tasks" THEN App1_PromiseAll(task1)
                  ELSE "settled"
       IN  /\ assets' = IF ok THEN AppendAsset(assets, App1_GeneratedAsset(r, t))
                        ELSE assets
           /\ CASE all = "fulfilled" ->
                     /\ state' = Status("complete")
                     /\ runs' = [runs EXCEPT ![r].task = task1, ![r].pc = "done"]
                [] all = "rejected" ->
                     /\ state' = Error(TaskError(t, outcome))
                     /\ runs' = [runs EXCEPT ![r].task = task1, ![r].pc = "failed"]
                [] OTHER ->
                     /\ state' = state
                     /\ runs' = [runs EXCEPT ![r].task = task1]
    /\ UNCHANGED <<apiKey, now, calls, saved, brandStyle, logs, capture, analysis,
                   demo, gens>>

\* --------------------------------------------------------------------- Next
TaskOutcomes == {"image", "noimage", "error"}

\* a session in which the user may press the demo buttons
Next ==
    \/ handleAnalyze
    \/ \E ok \in BOOLEAN : FetchResponds(ok)
    \/ FetchRejects
    \/ ScreenshotTimeout
    \/ \E o \in {"image", "text/html", "reject"} : BlobSettles(o)
    \/ \E o \in {"data", "nodata", "empty", "error"} : ReaderSettles(o)
    \/ \E text \in Texts : GeminiResolves(text)
    \/ GeminiRejects
    \/ GeminiTimeout
    \/ handleDemoMode
    \/ DemoTimeout
    \/ \E g \in 1..Len(gens), t \in Subtypes, o \in TaskOutcomes :
          TaskSettles(g, t, o)

Spec == Init /\ [][Next]_vars

\* a session in which the user submits a URL and never presses a demo button:
\* one run, whose six generation requests may all settle
NextRun ==
    \/ handleAnalyze
    \/ \E ok \in BOOLEAN : FetchResponds(ok)
    \/ FetchRejects
    \/ ScreenshotTimeout
    \/ \E o \in {"image", "text/html", "reject"} : BlobSettles(o)
    \/ \E o \in {"data", "nodata", "empty", "error"} : ReaderSettles(o)
    \/ \E text \in Texts : GeminiResolves(text)
    \/ GeminiRejects
    \/ GeminiTimeout
    \/ \E g \in 1..Len(gens), t \in Subtypes, o \in TaskOutcomes :
          Settle(g, t, o)

SpecRun == Init /\ [][NextRun]_vars

\* a session in which the live run cannot succeed (the capture request
\* fails, the analysis call gives no answer within 40 s) and the user takes
\* the demo; the six generation requests of the demo run may all settle
NextDemo ==
    \/ handleAnalyze
    \/ FetchRejects
    \/ GeminiTimeout
    \/ handleDemoMode
    \/ DemoTimeout
    \/ \E g \in 1..Len(gens), t \in Subtypes, o \in TaskOutcomes :
          Settle(g, t, o)

SpecDemo == Init /\ [][NextDemo]_vars

\* a session in which the user skips to the demo while the live analysis is
\* still running and downloads the archive; the capture request fails, the
\* analysis returns a descriptor, and the generation collaborator answers
\* the primary logo, Billboard and Merch requests
NextExport ==
    \/ handleAnalyze
    \/ FetchRejects
    \/ GeminiResolves(<<"OBJ">>)
    \/ handleDemoMode
    \/ DemoTimeout
    \/ \E g \in 1..Len(gens), t \in {PrimaryLogo, "Billboard", "Merch"} :
          Settle(g, t, "image")
    \/ \E fails \in SUBSET (1..Len(assets)) : handleDownloadZip(fails)

SpecExport == Init /\ [][NextExport]_vars

\* one call of analyzeBrandFromUrl, for every sink and every behaviour of the
\* two collaborators
InitSink ==
    /\ InitApp
    /\ onLog \in Sinks
    /\ collaborators \in [capture : CaptureBehaviours, analysis : AnalysisBehaviours]
    /\ callResult = NoOutcome
    /\ hex = <<>>
    /\ metrics = NoMetrics

NextSink == CallAnalyze

SpecSink == InitSink /\ [][NextSink]_vars

\* a session in which the user skips to the demo while the live analysis is
\* still running, so that two executions of startGeneration overlap: the
\* capture request fails, the analysis returns a descriptor, and the
\* generation collaborator answers the primary logo and Billboard requests
\* (the other requests stay in flight)
NextSkip ==
    \/ handleAnalyze
    \/ FetchRejects
    \/ GeminiResolves(<<"OBJ">>)
    \/ handleDemoMode
    \/ DemoTimeout
    \/ Tick
    \/ \E g \in 1..Len(gens), t \in {PrimaryLogo, "Billboard"} :
          Settle(g, t, "image")

SpecSkip == Init /\ [][NextSkip]_vars

\* one call of analyzeColor, for every input string
InitColor ==
    /\ InitApp
    /\ onLog = "none"
    /\ collaborators = [capture |-> "none", analysis |-> [kind |-> "none", text |-> <<>>]]
    /\ callResult = NoOutcome
    /\ hex \in Inputs
    /\ metrics = NoMetrics

NextColor == CallAnalyzeColor

SpecColor == InitColor /\ [][NextColor]_vars

\* a session of the earlier App in which the user submits one URL; each of
\* the eight generation requests may settle in any way
NextApp1Run ==
    \/ \E url \in App1_Urls : runs = <<>> /\ App1_handleAnalyze(url)
    \/ \E r \in 1..Len(runs), text \in Texts : App1_AnalysisResolves(r, text)
    \/ \E r \in 1..Len(runs) : App1_AnalysisRejects(r)
    \/ \E r \in 1..Len(runs), t \in App1_Tasks, o \in TaskOutcomes :
          App1_Settle(r, t, o)

SpecApp1Run == Init /\ [][NextApp1Run]_vars

\* a session of the earlier App in which the user submits up to MaxRuns
\* URLs; the image model answers the 'Minimalist Wordmark' and Instagram
\* requests with or without an image and rejects the other six
NextApp1 ==
    \/ \E url \in App1_Urls : Len(runs) < MaxRuns /\ App1_handleAnalyze(url)
    \/ \E r \in 1..Len(runs), text \in Texts : App1_AnalysisResolves(r, text)
    \/ \E r \in 1..Len(runs) : App1_AnalysisRejects(r)
    \/ \E r \in 1..Len(runs), t \in App1_Tasks :
          \E o \in (IF t \in {"Minimalist Wordmark", "Instagram"}
                    THEN TaskOutcomes ELSE {"error"}) :
             App1_Settle(r, t, o)

SpecApp1 == Init /\ [][NextApp1]_vars

\* =================================================================== claims
Settled(g) == \A t \in Subtypes : gens[g].task[t] \in {"ok", "fail"}
Failed(g) == {t \in Subtypes : gens[g].task[t] = "fail"}
Succeeded(g) == {t \in Subtypes : gens[g].task[t] = "ok"}
IsPrefix(s, t) == Len(s) <= Len(t) /\ SubSeq(t, 1, Len(s)) = s

\* C1: whenever one of the six generation tasks rejects, the rejection is
\* caught (startGeneration itself does not reject), a line is appended to the
\* log, no asset is appended, every sibling keeps its own status, and the run
\* state does not become error.
C1_FailureIsolated ==
    [][\A g \in 1..Len(gens) : \A t \in Subtypes :
          (gens[g].task[t] = "pending" /\ gens'[g].task[t] = "fail") =>
             /\ gens'[g].pc # "failed"
             /\ IsPrefix(logs, logs') /\ Len(logs') > Len(logs)
             /\ assets' = assets
             /\ \A u \in Subtypes \ {t} :
                   gens[g].task[u] = "pending" => gens'[g].task[u] = "pending"
             /\ (state'.status = "error" => state.status = "error")]_vars

\* C2: when all six tasks of a run have settled the run state is complete,
\* and if exactly one of them failed the asset sequence has five entries.
C2_OneFailureCompletes ==
    \A g \in 1..Len(gens) :
        Settled(g) =>
           /\ state.status = "complete"
           /\ (Cardinality(Failed(g)) = 1 => Len(assets) = Cardinality(Subtypes) - 1)

\* C3: startGeneration has settled, or the run state has left generating,
\* only when none of the tasks it dispatched is still pending.
C3_FullJoin ==
    \A g \in 1..Len(gens) :
        (gens[g].pc \in {"done", "failed"} \/ state.status \in {"complete", "error"})
           => \A t \in Subtypes : gens[g].task[t] # "pending"

\* C4: every asset in the asset sequence was produced by the most recently
\* started execution of startGeneration.
C4_StaleDiscarded ==
    \A i \in 1..Len(assets) : assets[i].gen = Len(gens)

\* C5: when the 40 s timer fires while the analysis call is pending the run
\* state becomes error with the timeout message and the call stays in flight;
\* when the call settles after that, run state, style descriptor, asset
\* sequence and log are unchanged.
C5_TimeoutThenInert ==
    [][/\ (timeoutPromise = "armed" /\ timeoutPromise' = "fired"
              /\ geminiPromise = "pending")
          => (state' = Error(TimeoutMsg) /\ geminiPromise' = "pending")
       /\ (timeoutPromise = "fired" /\ apc = "timedout"
              /\ geminiPromise = "pending" /\ geminiPromise' # "pending")
          => UNCHANGED <<state, brandStyle, assets, logs>>]_vars

C5_Witness ==
    /\ apc = "timedout"
    /\ geminiPromise = "resolved"
    /\ geminiValue = <<"OBJ">>
    /\ state = Error(TimeoutMsg)

\* the response texts that are not JSON once the code fences are stripped
NotJson == {<<"WS">>, <<"JUNK">>, <<"FENCE_JSON", "JUNK", "FENCE">>}

CaptureReasons ==
    {"Screenshot service returned status: 500",
     "Invalid content type received: text/html",
     "FileReader result is empty.",
     "Failed to read blob data.",
     "Screenshot failed (using text fallback): " \o CaptureErrMsg,
     "Screenshot failed (using text fallback): " \o AbortMsg}

StageA == {"fetch", "blob", "read"}

\* C7: every step that ends Stage A sends the analysis request (Stage B) and
\* leaves the run state as it was; a failure of the capture request or of its
\* body resolves to null, and the result is null exactly when a reason was
\* logged in that step; the run state never carries a capture error.
C7_StageANeverFatal ==
    /\ [][(apc \in StageA /\ apc' \notin StageA) =>
            /\ apc' = "gemini" /\ geminiPromise' = "pending"
            /\ state' = state
            /\ (apc \in {"fetch", "blob"} => screenshotBase64' = "null")
            /\ (timeoutId' = "fired" => screenshotBase64' = "null")
            /\ (screenshotBase64' = "null" <=>
                   \E i \in (Len(logs) + 1)..Len(logs') : logs'[i] \in CaptureReasons)]_vars
    /\ [](state.message \notin {CaptureErrMsg, AbortMsg})

C7_Witness ==
    /\ apc = "gemini"
    /\ timeoutId = "fired"
    /\ screenshotBase64 = "null"
    /\ state.status = "analyzing"
    /\ Len(logs) >= 3
    /\ logs[Len(logs) - 2] = "Screenshot failed (using text fallback): " \o AbortMsg

\* C8: the analysis request carries an inline image part exactly when Stage A
\* returned a non-empty payload; and a run whose capture failed and whose
\* analysis returned a valid descriptor ends, once startGeneration has
\* settled, in state complete.
C8_ImageIffCaptured ==
    /\ inputParts # <<>> =>
          (("inlineData" \in Range(inputParts))
              <=> screenshotBase64 \notin {"unset", "null", ""})
    /\ \A g \in 1..Len(gens) :
          (/\ screenshotBase64 = "null"
           /\ apc = "returned"
           /\ geminiValue = <<"OBJ">>
           /\ gens[g].pc \in {"done", "failed"})
          => state.status = "complete"

\* C9: whenever the run state is error its message is that of a missing
\* credential, an analysis timeout or an analysis parse failure.
C9_OnlyThreeErrors ==
    state.status = "error" => state.message \in {KeyMsg, TimeoutMsg, ParseMsg}

\* C10: an asset is appended at the end of the asset sequence in the step in
\* which its task completes, so the sequence is in completion order; and when
\* all tasks of the run have settled the sequence holds exactly one asset for
\* each task that succeeded, whatever the order of completion.
C10_CompletionOrder ==
    /\ [][\A g \in 1..Len(gens) : \A t \in Subtypes :
            (gens[g].task[t] = "pending" /\ gens'[g].task[t] = "ok")
               => assets' = Append(assets, GeneratedAsset(g, t))]_vars
    /\ [](\A g \in 1..Len(gens) :
            Settled(g) =>
               /\ Range(assets) = {GeneratedAsset(g, t) : t \in Succeeded(g)}
               /\ Len(assets) = Cardinality(Succeeded(g)))

C10_Witness ==
    /\ Len(gens) = 1 /\ Settled(1)
    /\ Len(assets) = 5
    /\ assets[1].subtype = "Minimalist Wordmark"
    /\ assets[2].subtype = "App Icon"
    /\ assets[3].subtype = "Poster"
    /\ assets[4].subtype = "Billboard"
    /\ assets[5].subtype = "Abstract Icon"

\* the step is a user event that starts a run: the URL form is submitted
\* (handleAnalyze) or a demo button is pressed (handleDemoMode)
UserStarts == (apc = "idle" /\ apc' # "idle") \/ demoClicks' # demoClicks

\* the forward moves of the run state; analyzing -> error also covers a step
\* that sets generating and fails before the task returns to the event loop
ForwardMoves ==
    {<<"idle", "analyzing">>, <<"analyzing", "generating">>,
     <<"generating", "complete">>, <<"analyzing", "error">>}

\* C11: every change of the run state is a forward move idle -> analyzing ->
\* generating -> complete or analyzing -> error, or is made by the user event
\* that starts a run; in particular no step of background work takes the
\* state from complete or error to generating, or from generating to error.
C11_ForwardOnly ==
    [][state'.status # state.status =>
          \/ UserStarts
          \/ <<state.status, state'.status>> \in ForwardMoves]_vars

\* C12: a step that leaves the run state generating does not shorten the
\* asset sequence, and after the user event that starts a run the asset
\* sequence is empty.
C12_AssetsGrowThenReset ==
    /\ [][(state.status = "generating" /\ state'.status = "generating")
             => Len(assets') >= Len(assets)]_vars
    /\ [][UserStarts => assets' = <<>>]_vars

\* C13: at every state no two entries of the asset sequence have the same
\* id, and the step in which a generation task succeeds adds exactly one
\* entry, the asset of that task, to the sequence.
C13_UniqueIds ==
    /\ [](\A i, j \in 1..Len(assets) : assets[i].id = assets[j].id => i = j)
    /\ [][\A g \in 1..Len(gens) : \A t \in Subtypes :
            (gens[g].task[t] = "pending" /\ gens'[g].task[t] = "ok")
               => /\ Len(assets') = Len(assets) + 1
                  /\ assets'[Len(assets')] = GeneratedAsset(g, t)]_vars

\* C14: once the style descriptor has been set for the current run (the run
\* state is generating or complete), only the user event that starts another
\* run is followed by a change of it: no step of background work changes
\* brandStyle while the state is generating or complete.
C14_StyleImmutable ==
    [][(state.status \in {"generating", "complete"} /\ ~UserStarts)
          => brandStyle' = brandStyle]_vars

\* the descriptors that lack required fields: the JSON values null and {}
Malformed == {"null", "empty"}

\* C15: a response that is valid JSON but not a descriptor with the five
\* fields makes the run fail with the parse-failure message and starts no
\* execution of startGeneration; every execution started by the live
\* pipeline was given a complete descriptor.
C15_SchemaChecked ==
    /\ [][(/\ RacePending
           /\ geminiPromise = "pending" /\ geminiPromise' = "resolved"
           /\ JsonParse(StripFences(geminiValue')) \in Malformed)
             => (state' = Error(ParseMsg) /\ gens' = gens)]_vars
    /\ [](\A g \in 1..Len(gens) :
             gens[g].origin = "live" => JsonParse(StripFences(geminiValue)) = "live")

\* C16: Stage A is pending only while its 8 s timer is armed: when the timer
\* has fired Stage A has settled, and Stage A never waits for the capture
\* collaborator (headers, body or conversion) without the timer running.
C16_StageABounded ==
    apc \in StageA => timeoutId = "armed"

\* C17: without the credential no capture, analysis or generation request is
\* ever made, and once a run has been started and its start-up timer has run
\* the run state is error with the message 'API Key not found'.
C17_NoKeyFailsFast ==
    ~apiKey =>
       /\ timeoutId = "none" /\ screenshotBase64 = "unset"
       /\ geminiPromise = "none"
       /\ \A g \in 1..Len(gens) : \A t \in Subtypes :
             gens[g].task[t] \notin {"pending", "ok", "fail"}
       /\ (apc # "idle" /\ demoTimers = 0) => state = Error(KeyMsg)

\* the request of task t of execution g has been sent to the collaborator
Sent(g, t) == gens[g].task[t] \in {"pending", "ok", "fail"}

\* a request is sent once: a task that was issued is not issued again, and
\* a task that has ended keeps its result
NoReissue ==
    [][\A g \in 1..Len(gens) : \A t \in Subtypes :
          /\ gens[g].task[t] # "idle" => gens'[g].task[t] # "idle"
          /\ gens[g].task[t] \in {"ok", "fail", "thrown"}
                => gens'[g].task[t] = gens[g].task[t]]_vars

\* C18: in every execution of startGeneration that has gone past its primary
\* task all six requests have been sent to the generation collaborator, and
\* no task is sent a second time, whether it failed or not.
C18_ExactlyOnce ==
    /\ [](\A g \in 1..Len(gens) :
             gens[g].pc # "primary" => \A t \in Subtypes : Sent(g, t))
    /\ NoReissue

\* the entries of the asset sequence that execution g appended
AssetsOf(g) ==
    LET Mine(a) == a.gen = g
    IN  SelectSeq(assets, Mine)

\* C19: while the primary task of an execution is pending none of its
\* second-wave tasks has been issued; the five second-wave tasks are issued
\* together, in the step in which the primary settles, and all are pending
\* after that step; and when the primary succeeded its asset is appended in
\* that step and is the first of the entries the execution has appended.
C19_PrimaryFirst ==
    /\ [](\A g \in 1..Len(gens) :
             gens[g].task[PrimaryLogo] = "pending"
                => \A t \in Range(SecondWave) : gens[g].task[t] = "idle")
    /\ [][\A g \in 1..Len(gens) : \A t \in Range(SecondWave) :
            (gens[g].task[t] = "idle" /\ gens'[g].task[t] # "idle")
               => /\ gens[g].task[PrimaryLogo] = "pending"
                  /\ gens'[g].task[PrimaryLogo] \in {"ok", "fail"}
                  /\ \A u \in Range(SecondWave) : gens'[g].task[u] = "pending"]_vars
    /\ [][\A g \in 1..Len(gens) :
            (gens[g].task[PrimaryLogo] = "pending" /\ gens'[g].task[PrimaryLogo] = "ok")
               => (AssetsOf(g) = <<>>
                     /\ assets' = Append(assets, GeneratedAsset(g, PrimaryLogo)))]_vars
    /\ [](\A g \in 1..Len(gens) :
             (gens[g].task[PrimaryLogo] = "ok" /\ AssetsOf(g) # <<>>)
                => AssetsOf(g)[1].subtype = PrimaryLogo)

C19_Witness ==
    /\ Len(gens) = 1
    /\ gens[1].pc = "wave"
    /\ gens[1].task[PrimaryLogo] = "ok"
    /\ gens[1].task["Merch"] = "pending"
    /\ Len(assets) = 3
    /\ assets[1].subtype = PrimaryLogo
    /\ assets[2].subtype = "Poster"

\* C20: when a demo button has been pressed, its timer has run, the live
\* analysis is no longer pending and every generation request has settled,
\* the run state is complete.
C20_DemoCompletes ==
    (/\ demoClicks > 0 /\ demoTimers = 0
     /\ apc \notin StageA \cup {"gemini"}
     /\ Len(gens) > 0
     /\ \A g \in 1..Len(gens) : Settled(g))
    => state.status = "complete"

\* the lines a run-starting handler logs after it has cleared the log
StartLines ==
    {"Starting analysis", "Step 1: Fetching visual context...",
     "Initiating screenshot capture...", "Sending request to screenshot service...",
     "FATAL ERROR: " \o KeyMsg, "Demo Mode activated.", "Skipping live analysis..."}

\* C21: a step that is not the start of a run changes the log only by
\* appending at its end (the earlier log is a prefix of the later one, so no
\* entry is modified, removed or reordered); the step that starts a run
\* leaves only the lines that the handler itself appended after clearing.
C21_LogAppendOnly ==
    [][/\ ~UserStarts => IsPrefix(logs, logs')
       /\ UserStarts => /\ \A i \in 1..Len(logs') : logs'[i] \in StartLines
                        /\ logs'[1] \in {"Starting analysis", "Demo Mode activated."}]_vars

C21_Witness ==
    /\ demoClicks = 1
    /\ apc = "parsefail"
    /\ Len(logs) = 10
    /\ logs[1] = "Demo Mode activated."
    /\ logs[3] = "Loaded 'NeonFlux' demo brand profile."
    /\ logs[6] = "Gemini response received."

\* the stage of analyzeBrandFromUrl a log line belongs to; 0 for the lines
\* that App logs itself
StageOf(line) ==
    CASE line = "Step 1: Fetching visual context..." -> 1
      [] line \in {"Initiating screenshot capture...",
                   "Sending request to screenshot service...",
                   "Screenshot captured successfully. Converting to Base64..."}
            \cup CaptureReasons -> 2
      [] line \in {"Visual context acquired. Attaching image to prompt.",
                   "No visual context available. Proceeding with text/search analysis.",
                   "Step 2: Sending request to Gemini 3 Pro..."} -> 3
      [] line = "Gemini response received." -> 4
      [] line = "Step 3: Parsing analysis results..." -> 5
      [] line \in {"Analysis complete. Style definition ready.",
                   "Error: Invalid JSON format received.",
                   "Error: Empty text response from Gemini."} -> 6
      [] OTHER -> 0

\* the lines logged by the step
NewLines == {logs'[i] : i \in (Len(logs) + 1)..Len(logs')}

\* C22: the lines of analyzeBrandFromUrl appear in the log in stage order
\* (no line of a later stage stands before a line of an earlier stage), and
\* the steps that pass a stage boundary log its line: the end of the capture
\* logs 'Step 2', a response that decides the race logs its receipt, a
\* response with text logs 'Step 3' and the parse outcome.
C22_StageOrder ==
    /\ [](\A i, j \in 1..Len(logs) :
             (i < j /\ StageOf(logs[i]) > 0 /\ StageOf(logs[j]) > 0)
                => StageOf(logs[i]) <= StageOf(logs[j]))
    /\ [][/\ (apc \in StageA /\ apc' = "gemini")
               => "Step 2: Sending request to Gemini 3 Pro..." \in NewLines
          /\ (apc = "gemini" /\ geminiPromise' = "resolved")
               => "Gemini response received." \in NewLines
          /\ (apc = "gemini" /\ geminiPromise' = "resolved" /\ geminiValue' # <<>>)
               => /\ "Step 3: Parsing analysis results..." \in NewLines
                  /\ \E l \in NewLines : StageOf(l) = 6]_vars

\* C23: a call of analyzeBrandFromUrl sends the same analysis request and
\* ends in the same way (the same descriptor returned or the same error
\* thrown) as the call without a log sink does against the same behaviour of
\* the collaborators.
C23_SinkIndependent ==
    callResult # NoOutcome =>
       LET ref == AnalyzeCall("undefined", collaborators.capture, collaborators.analysis)
       IN  /\ callResult.request = ref.request
           /\ callResult.result = ref.result
           /\ callResult.value = ref.value

\* C24: an archive that was saved holds the manifest and, for each asset
\* whose fetch succeeded, one image file at the path of that asset with that
\* asset's image: as many image files as fetches that succeeded; and the
\* export is saved whatever subset of the fetches fails.
C24_ExportIsolatesFailures ==
    /\ [](saved # NoArchive =>
            /\ saved.manifest
            /\ \A a \in saved.fetched :
                  [path |-> Path(a), content |-> a] \in saved.files
            /\ Cardinality(saved.files) = Cardinality(saved.fetched))
    /\ [][(DownloadEnabled /\ saved' # saved) => saved' # NoArchive]_vars

\* C25: the download can be triggered, and an archive is saved, only when
\* the run state is complete and no generation request is in flight.
C25_ExportOnlyWhenComplete ==
    /\ [](DownloadEnabled =>
            /\ state.status = "complete"
            /\ \A g \in 1..Len(gens) : \A t \in Subtypes : gens[g].task[t] # "pending")
    /\ [][saved' # saved => state.status = "complete"]_vars

\* ---- analyzeColor
Analysed == metrics # NoMetrics
Classes == {"AAA", "AA", "Fail"}

\* C26: analyzeColor is total: a call on any string returns, the result is a
\* ColorMetrics (the input as hex, two contrasts, a classification), and both
\* contrasts lie in [0, 21]
C26_Total ==
    /\ ~Analysed => ENABLED CallAnalyzeColor
    /\ Analysed =>
          /\ metrics.hex = hex
          /\ metrics.contrastWhite \in 0..2100
          /\ metrics.contrastBlack \in 0..2100
          /\ metrics.accessibility \in Classes \cup {"Invalid"}

\* an analysed colour whose contrasts are the two ends of the range of a
\* valid colour
C26_Witness ==
    /\ Analysed
    /\ metrics.contrastBlack = 2100
    /\ metrics.contrastWhite = 100

\* the characters the claim calls hexadecimal digits, either case
HexChars ==
    {"0", "1", "2", "3", "4", "5", "6", "7", "8", "9",
     "a", "b", "c", "d", "e", "f", "A", "B", "C", "D", "E", "F"}
SixHex(s) == Len(s) = 6 /\ \A i \in 1..6 : s[i] \in HexChars
WellFormed(s) == SixHex(s) \/ (s # <<>> /\ s[1] = "#" /\ SixHex(Tail(s)))

\* C27: the result is Invalid, with both contrasts 0 and the input echoed as
\* hex, exactly when the input is not an optional '#' followed by exactly six
\* hexadecimal digits of either case; an input of that form is classified
\* AAA, AA or Fail
C27_InvalidIffMalformed ==
    Analysed =>
       /\ (metrics.accessibility = "Invalid") <=> ~WellFormed(hex)
       /\ ~WellFormed(hex) =>
             metrics = [hex |-> hex, contrastWhite |-> 0, contrastBlack |-> 0,
                        accessibility |-> "Invalid"]
       /\ WellFormed(hex) => metrics.accessibility \in Classes

\* a string of seven hexadecimal digits has been analysed and found Invalid
C27_Witness ==
    /\ Analysed
    /\ hex = <<"0", "F", "0", "F", "0", "F", "0">>
    /\ metrics.accessibility = "Invalid"

\* C28: for a valid colour the classification is AAA iff the larger of the
\* two returned (rounded) contrasts is at least 7, AA iff it is at least 4.5
\* and below 7, and Fail otherwise
C28_ClassifiedOnRounded ==
    (Analysed /\ WellFormed(hex)) =>
       LET m == Max(metrics.contrastWhite, metrics.contrastBlack)
       IN  /\ (metrics.accessibility = "AAA") <=> (m >= 700)
           /\ (metrics.accessibility = "AA") <=> (m >= 450 /\ m < 700)
           /\ (metrics.accessibility = "Fail") <=> (m < 450)

\* '#9a9a00' has been analysed: its contrast with black is 6.997..., which is
\* returned as 7.00 and classified AAA
C28_Witness ==
    /\ Analysed
    /\ hex = <<"#", "9", "a", "9", "a", "0", "0">>
    /\ LET x == calculateContrast(hexToRgb(hex), <<0, 0, 0>>)
       IN  100 * x.num < 700 * x.den
    /\ metrics.contrastBlack = 700
    /\ metrics.accessibility = "AAA"

\* the input without its leading '#' and with its letters in lower case
Lower(c) ==
    CASE c = "A" -> "a" [] c = "B" -> "b" [] c = "C" -> "c" [] c = "D" -> "d"
      [] c = "E" -> "e" [] c = "F" -> "f" [] OTHER -> c
Normal(s) ==
    LET d == IF s # <<>> /\ s[1] = "#" THEN Tail(s) ELSE s
    IN  [i \in 1..Len(d) |-> Lower(d[i])]

\* C29: black, written '#000000' or '000000', has contrastWhite 21.00,
\* contrastBlack 1.00 and AAA; white, written '#FFFFFF', '#ffffff', 'FFFFFF'
\* or 'ffffff' (or in mixed case), has contrastWhite 1.00, contrastBlack 21.00
\* and AAA
C29_Extremes ==
    Analysed =>
       /\ Normal(hex) = <<"0", "0", "0", "0", "0", "0">> =>
             /\ metrics.contrastWhite = 2100
             /\ metrics.contrastBlack = 100
             /\ metrics.accessibility = "AAA"
       /\ Normal(hex) = <<"f", "f", "f", "f", "f", "f">> =>
             /\ metrics.contrastWhite = 100
             /\ metrics.contrastBlack = 2100
             /\ metrics.accessibility = "AAA"

\* 'FFFFFF', upper case and without '#', has been analysed
C29_Witness ==
    /\ Analysed
    /\ hex = <<"F", "F", "F", "F", "F", "F">>
    /\ metrics.contrastBlack = 2100
    /\ metrics.accessibility = "AAA"

\* ---- generation after extraction
\* execution g of startGeneration has called the generation collaborator
Issued(g) == \E t \in Subtypes : gens[g].task[t] \in {"pending", "ok", "fail"}
ExtractionFailed ==
    apc \in {"nokey", "rejected", "timedout", "emptytext", "parsefail"}

\* C30: a generation collaborator call of the live run is made only once
\* analyzeBrandFromUrl has resolved, one of a demo run only once the demo
\* timer has loaded the demo descriptor; a run whose extraction failed makes
\* no generation call
C30_GenerationAfterDescriptor ==
    /\ \A g \in 1..Len(gens) :
          Issued(g) =>
             /\ gens[g].origin = "live" =>
                    apc = "returned" /\ geminiPromise = "resolved"
             /\ gens[g].origin = "demo" => demoTimers < demoClicks
    /\ apc # "returned" => \A g \in 1..Len(gens) : gens[g].origin # "live"
    /\ ExtractionFailed => \A g \in 1..Len(gens) : gens[g].origin # "live"

\* the live run and a demo run have both issued generation requests, the
\* live one after the analysis returned
C30_Witness ==
    /\ Len(gens) = 2
    /\ gens[1].origin = "demo" /\ Issued(1)
    /\ gens[2].origin = "live" /\ Issued(2)
    /\ apc = "returned"

\* ---- one generation at a time
\* execution g of startGeneration has a request in flight
InFlight(g) == \E t \in Subtypes : gens[g].task[t] = "pending"

\* C31: at most one generation is in flight: no two executions of
\* startGeneration have requests pending in the same state
C31_OneGenerationInFlight ==
    \A g1, g2 \in 1..Len(gens) : (InFlight(g1) /\ InFlight(g2)) => g1 = g2

\* ---- assets change only while generating
\* C32: a step taken while the run state is idle, complete or error leaves
\* the asset sequence as it is: nothing is appended and it is not reset
C32_AssetsChangeOnlyGenerating ==
    [][state.status \in {"idle", "complete", "error"} => assets' = assets]_vars

\* ---- Fail is never returned
\* C33: for a valid colour the exact contrasts against white and against
\* black multiply to 21 (the numerator of one is the denominator of the
\* other, and the remaining numerator is 21 times the remaining denominator),
\* the larger returned contrast is at least 4.58, and the classification is
\* AAA or AA; no input is classified Fail
C33_NeverFail ==
    Analysed =>
       /\ metrics.accessibility \in {"AAA", "AA", "Invalid"}
       /\ WellFormed(hex) =>
             LET rgb == hexToRgb(hex)
                 w == calculateContrast(rgb, <<255, 255, 255>>)
                 b == calculateContrast(rgb, <<0, 0, 0>>)
             IN  /\ b.num = w.den
                 /\ w.num = 21 * b.den
                 /\ Max(metrics.contrastWhite, metrics.contrastBlack) >= 458
                 /\ metrics.accessibility \in {"AAA", "AA"}

\* '#767676', the grey whose two contrasts are nearest to each other, has
\* been analysed: 4.54 against white, 4.62 against black, AA
C33_Witness ==
    /\ Analysed
    /\ hex = <<"#", "7", "6", "7", "6", "7", "6">>
    /\ metrics.contrastWhite = 454
    /\ metrics.contrastBlack = 462
    /\ metrics.accessibility = "AA"

\* ---- the success line
SuccessLine == "All assets generated successfully."

\* C34: the step that appends 'All assets generated successfully.' to the log
\* completes an execution all six of whose tasks succeeded, and leaves the
\* asset sequence holding the six assets of that execution
C34_SuccessLineMeansSix ==
    [][(Len(logs') > Len(logs) /\ logs'[Len(logs')] = SuccessLine) =>
          \E g \in 1..Len(gens) :
             /\ gens[g].pc # "done" /\ gens'[g].pc = "done"
             /\ \A t \in Subtypes : gens'[g].task[t] = "ok"
             /\ Len(assets') = Cardinality(Subtypes)
             /\ Range(assets') = {GeneratedAsset(g, t) : t \in Subtypes}]_vars

\* ---- late timers
\* C35: the 40 s analysis timer firing after the analysis call has settled,
\* and the 8 s capture timer firing after the capture request has failed,
\* leave run state, style descriptor, asset sequence and log unchanged
C35_LateTimersInert ==
    [][/\ (timeoutPromise = "armed" /\ timeoutPromise' = "fired"
              /\ geminiPromise # "pending")
          => UNCHANGED <<state, brandStyle, assets, logs>>
       /\ (timeoutId = "armed" /\ timeoutId' = "fired" /\ apc # "fetch")
          => UNCHANGED <<state, brandStyle, assets, logs>>]_vars

\* both timers have fired late in a run that completed: the capture request
\* had failed with a network error and the analysis had returned
C35_Witness ==
    /\ timeoutId = "fired"
    /\ timeoutPromise = "fired"
    /\ apc = "returned"
    /\ state.status = "complete"
    /\ \E i \in 1..Len(logs) :
          logs[i] = "Screenshot failed (using text fallback): " \o CaptureErrMsg

\* ---- starting a run
RunStarted == apc # "idle" \/ demoClicks > 0

\* C36: once a run has been started the run state is never idle; handleAnalyze
\* is invoked from the idle state only, hence at most once; every later start
\* of a run is a press of a demo button, made in state analyzing or error; no
\* user action starts a run from generating or complete
C36_StartOnlyFromIdleAnalyzingError ==
    /\ [](RunStarted => state.status # "idle")
    /\ [][/\ (apc # "idle" => apc' # "idle")
          /\ (apc = "idle" /\ apc' # "idle") =>
                (state.status = "idle" /\ ~RunStarted)
          /\ demoClicks' # demoClicks =>
                (state.status \in {"analyzing", "error"} /\ RunStarted)
          /\ UserStarts => state.status \notin {"generating", "complete"}]_vars

\* the live run failed on the 40 s timeout and the user took the demo from
\* the error state; the demo run is generating
C36_Witness ==
    /\ apc = "timedout"
    /\ demoClicks = 1
    /\ Len(gens) = 1
    /\ gens[1].origin = "demo"
    /\ state.status = "generating"

\* ---- the earlier App
App1_Settled(r) == \A t \in App1_Tasks : runs[r].task[t] \in {"ok", "fail"}
App1_Succeeded(r) == {t \in App1_Tasks : runs[r].task[t] = "ok"}
App1_InFlight(r) == \E t \in App1_Tasks : runs[r].task[t] = "pending"

\* C37: in the earlier App an execution whose analysis returned a descriptor
\* never leaves through the catch block and never puts the state in error;
\* the state stays generating while one of its eight tasks is pending; and
\* once all eight have settled the state is complete and the asset sequence
\* holds exactly one entry for each task that succeeded
C37_EarlierAlwaysCompletes ==
    \A r \in 1..Len(runs) :
       /\ (runs[r].pc \in {"tasks", "done"} /\ r = Len(runs)) =>
             state.status \in {"generating", "complete"}
       /\ App1_InFlight(r) => (runs[r].pc = "tasks" /\ state.status = "generating")
       /\ (\E t \in App1_Tasks : runs[r].task[t] # "idle") => runs[r].pc # "failed"
       /\ App1_Settled(r) =>
             /\ runs[r].pc = "done"
             /\ r = Len(runs) =>
                   /\ state.status = "complete"
                   /\ Len(assets) = Cardinality(App1_Succeeded(r))
                   /\ Range(assets) =
                         {App1_GeneratedAsset(r, t) : t \in App1_Succeeded(r)}

\* all eight tasks have settled, three of them failed (a logo with a response
\* that carries no image, two social mocks rejected), and the state is
\* complete with five assets
C37_Witness ==
    /\ Len(runs) = 1
    /\ App1_Settled(1)
    /\ runs[1].task["Emblem"] = "fail"
    /\ runs[1].task["Twitter"] = "fail"
    /\ runs[1].task["LinkedIn"] = "fail"
    /\ Len(assets) = 5
    /\ state.status = "complete"

\* C38: in the earlier App a run starts only while the state is neither
\* analyzing nor generating, and never with an empty URL; tasks of two
\* executions are never pending together; and every asset in the sequence
\* was produced by the latest execution
C38_EarlierOneRunAtATime ==
    /\ [][Len(runs') > Len(runs) => state.status \notin {"analyzing", "generating"}]_vars
    /\ [](\A r1, r2 \in 1..Len(runs) :
             (App1_InFlight(r1) /\ App1_InFlight(r2)) => r1 = r2)
    /\ [](\A r \in 1..Len(runs) :
             runs[r].pc \in {"analysis", "tasks"} => r = Len(runs))
    /\ [](\A i \in 1..Len(assets) : assets[i].gen = Len(runs))

\* the part of C38 on the start of a run and on tasks in flight
App1_NoOverlap ==
    /\ [][Len(runs') > Len(runs) => state.status \notin {"analyzing", "generating"}]_vars
    /\ [](\A r1, r2 \in 1..Len(runs) :
             (App1_InFlight(r1) /\ App1_InFlight(r2)) => r1 = r2)
    /\ [](\A r \in 1..Len(runs) :
             runs[r].pc \in {"analysis", "tasks"} => r = Len(runs))
    /\ [](\A i \in 1..Len(assets) :
             state.status \in {"generating", "complete"} => assets[i].gen = Len(runs))

====
